---- MODULE Spec2Model ----
(***************************************************************************)
(* AIPaint: the document / command / preview state machine of              *)
(* src/DrawingObject.cpp and the window procedure of src/Source.cpp.       *)
(*                                                                         *)
(* Objects live in `heap` (shared_ptr targets); the document, the commands *)
(* and the session globals hold references into it.  Indices are the       *)
(* 0-based size_t indices of the code; slot i of m_objects is              *)
(* m_objects[i + 1] here.  Coordinates are the integer pointer coordinates *)
(* delivered by GET_X_LPARAM / GET_Y_LPARAM.  Ellipse parameters are kept  *)
(* in half units (all four numbers multiplied by 2) so that the midpoint   *)
(* and half-extent of an integer bounding box stay integral.               *)
(***************************************************************************)
EXTENDS Integers, Sequences, FiniteSets, TLC

VARIABLES
    g_document,            \* CDocument: m_objects, m_undoStack, m_redoStack
    heap,                  \* reference -> object (the shared_ptr targets alive)
    g_currentStroke,       \* reference to the stroke being drawn, or NULL
    g_isDrawing,           \* BOOLEAN
    g_pComplementPreview,  \* reference to the staged preview primitive, or NULL
    g_pOriginalObject,     \* reference to the stroke the preview replaces, or NULL
    g_previewIndex,        \* size_t
    nStrokes,              \* number of CFreehandStroke objects constructed so far
    log                    \* history: the latest events, each with the state before it

vars == << g_document, heap, g_currentStroke, g_isDrawing, g_pComplementPreview,
           g_pOriginalObject, g_previewIndex, nStrokes, log >>

-----------------------------------------------------------------------------
(* Bounds of the model *)

\* pointer-down events (strokes constructed) in one run
MaxStrokes == 2

-----------------------------------------------------------------------------
(* Values *)

NULL == 0

Pt(x, y) == [x |-> x, y |-> y]

\* D2D1_ELLIPSE potentialEllipse = { 0 } and m_complementEllipse = { 0 }
ZeroEllipse == [point |-> Pt(0, 0), radiusX |-> 0, radiusY |-> 0]

Abs(n) == IF n < 0 THEN -n ELSE n

MinOf(S) == CHOOSE m \in S : \A n \in S : m <= n

MaxOf(S) == CHOOSE m \in S : \A n \in S : n <= m

Last(s) == s[Len(s)]

Front(s) == SubSeq(s, 1, Len(s) - 1)

\* The pointer path of the input source: the pointer moves along this path
\* and the button is released after one of the ReleaseAt prefixes.  The
\* prefixes are, in order of ReleaseAt: a single point, a 2-point segment,
\* a 4-point open arc, 5 points on the circle of radius 25 about (25,25),
\* and 11 points (the circle points followed by points inside the circle).
PointerPath ==
    << Pt(50, 25), Pt(40, 45), Pt(25, 50), Pt(0, 25), Pt(25, 0), Pt(25, 25),
       Pt(30, 25), Pt(35, 25), Pt(40, 25), Pt(45, 25), Pt(45, 30) >>

ReleaseAt == {1, 2, 4, 5, 11}

\* float width = 3.0f in WM_LBUTTONDOWN, previewWidth = 3.0f in WM_LBUTTONUP
STROKE_WIDTH == 3

-----------------------------------------------------------------------------
(* FitEllipse and CFreehandStroke *)

\* a fit that skips the test for a box that is too small (a box without width
\* or height fits nothing)
FitEllipse_NoSizeGuard(points, tolerance, outEllipse) ==
    IF Len(points) < 5
    THEN [result |-> FALSE, outEllipse |-> outEllipse]
    ELSE LET xs == {points[i].x : i \in DOMAIN points}
             ys == {points[i].y : i \in DOMAIN points}
             minX == MinOf(xs)
             maxX == MaxOf(xs)
             minY == MinOf(ys)
             maxY == MaxOf(ys)
             wx == maxX - minX
             wy == maxY - minY
             fitted == [point |-> Pt(minX + maxX, minY + maxY),
                        radiusX |-> wx, radiusY |-> wy]
             DevNum(p) ==
                 LET ax == 2 * p.x - (minX + maxX)
                     ay == 2 * p.y - (minY + maxY)
                 IN  Abs(ax * ax * wy * wy + ay * ay * wx * wx - wx * wx * wy * wy)
             maxDeviationNum == MaxOf({DevNum(points[i]) : i \in DOMAIN points})
         IN  [result |-> wx > 0 /\ wy > 0 /\ 5 * maxDeviationNum < wx * wx * wy * wy,
              outEllipse |-> fitted]

\* bool FitEllipse(points, tolerance, outEllipse): the returned flag and the
\* value left in outEllipse.  nx*nx + ny*ny - 1 is the fraction
\* (ax^2 wy^2 + ay^2 wx^2 - wx^2 wy^2) / (wx^2 wy^2) with ax = 2x - (minX+maxX),
\* wx = maxX - minX (and likewise in y), so |...| < 0.2 is 5 |numerator| < denominator.
FitEllipse(points, tolerance, outEllipse) ==
    IF Len(points) < 5
    THEN [result |-> FALSE, outEllipse |-> outEllipse]
    ELSE LET xs == {points[i].x : i \in DOMAIN points}
             ys == {points[i].y : i \in DOMAIN points}
             minX == MinOf(xs)
             maxX == MaxOf(xs)
             minY == MinOf(ys)
             maxY == MaxOf(ys)
             wx == maxX - minX
             wy == maxY - minY
         IN  IF wx < 20 \/ wy < 20      \* radiusX < 10.0f || radiusY < 10.0f
             THEN [result |-> FALSE, outEllipse |-> outEllipse]
             ELSE LET fitted == [point |-> Pt(minX + maxX, minY + maxY),
                                 radiusX |-> wx, radiusY |-> wy]
                      DevNum(p) ==
                          LET ax == 2 * p.x - (minX + maxX)
                              ay == 2 * p.y - (minY + maxY)
                          IN  Abs(ax * ax * wy * wy + ay * ay * wx * wx
                                  - wx * wx * wy * wy)
                      maxDeviationNum == MaxOf({DevNum(points[i]) : i \in DOMAIN points})
                  IN  [result |-> 5 * maxDeviationNum < wx * wx * wy * wy,
                       outEllipse |-> fitted]

\* CFreehandStroke::CFreehandStroke(color, width)
NewStroke(color, width) ==
    [kind |-> "Stroke", m_points |-> << >>, m_color |-> color,
     m_strokeWidth |-> width, m_isComplemented |-> FALSE,
     m_detectedShape |-> "None", m_complementEllipse |-> ZeroEllipse]

\* CFreehandStroke::AddPoint
AddPoint(s, p) == [s EXCEPT !.m_points = Append(@, p)]

\* the three tests of Complement on a stroke, with the ellipse test comparing
\* the deviation against `factor` line tolerances: [ellipse, line, curve]
ShapeTests(s, factor) ==
    LET start == s.m_points[1]
        end == Last(s.m_points)
        dx == end.x - start.x
        dy == end.y - start.y
        L_sq == dx * dx + dy * dy
        LINE_TOLERANCE == s.m_strokeWidth * 2
        A == end.y - start.y
        B == start.x - end.x
        C == end.x * start.y - end.y * start.x
        Num(p) == Abs(A * p.x + B * p.y + C)
        maxNum == MaxOf({Num(s.m_points[i]) : i \in DOMAIN s.m_points})
        divSq == IF L_sq > 0 THEN L_sq ELSE 1
        fit == FitEllipse(s.m_points, 10, ZeroEllipse)
    IN  [ellipse |-> fit.result
                       /\ maxNum * maxNum
                              > (factor * LINE_TOLERANCE) * (factor * LINE_TOLERANCE) * divSq,
         line |-> maxNum * maxNum < LINE_TOLERANCE * LINE_TOLERANCE * divSq,
         curve |-> Len(s.m_points) > 10,
         fitted |-> fit.outEllipse]

\* a classification that tries the curve before the line
Classify_CurveFirst(s) ==
    LET t == ShapeTests(s, 5)
    IN  IF t.ellipse
        THEN [s EXCEPT !.m_isComplemented = TRUE, !.m_detectedShape = "Ellipse",
                       !.m_complementEllipse = t.fitted]
        ELSE IF t.curve
        THEN [s EXCEPT !.m_isComplemented = TRUE, !.m_detectedShape = "Curve"]
        ELSE IF t.line
        THEN [s EXCEPT !.m_isComplemented = TRUE, !.m_detectedShape = "Line"]
        ELSE [s EXCEPT !.m_isComplemented = FALSE, !.m_detectedShape = "None"]

\* a classification whose ellipse test uses the line tolerance itself
Classify_SingleTolerance(s) ==
    LET t == ShapeTests(s, 1)
    IN  IF t.ellipse
        THEN [s EXCEPT !.m_isComplemented = TRUE, !.m_detectedShape = "Ellipse",
                       !.m_complementEllipse = t.fitted]
        ELSE IF t.line
        THEN [s EXCEPT !.m_isComplemented = TRUE, !.m_detectedShape = "Line"]
        ELSE IF t.curve
        THEN [s EXCEPT !.m_isComplemented = TRUE, !.m_detectedShape = "Curve"]
        ELSE [s EXCEPT !.m_isComplemented = FALSE, !.m_detectedShape = "None"]

\* The body of CFreehandStroke::Complement after its early return.
\* distance = |A x + B y + C| / (L > 0 ? L : 1) with L = sqrt(L_sq); the
\* comparisons of maxLineDeviation with a tolerance t >= 0 are made on the
\* squares: maxNum^2 against t^2 * L_sq (or t^2 when the end points coincide).
Classify(s) ==
         LET start == s.m_points[1]
             end == Last(s.m_points)
             dx == end.x - start.x
             dy == end.y - start.y
             L_sq == dx * dx + dy * dy
             LINE_TOLERANCE == s.m_strokeWidth * 2
             A == end.y - start.y
             B == start.x - end.x
             C == end.x * start.y - end.y * start.x
             Num(p) == Abs(A * p.x + B * p.y + C)
             maxNum == MaxOf({Num(s.m_points[i]) : i \in DOMAIN s.m_points})
             divSq == IF L_sq > 0 THEN L_sq ELSE 1
             DevGreater(t) == maxNum * maxNum > t * t * divSq
             DevLess(t) == maxNum * maxNum < t * t * divSq
             fit == FitEllipse(s.m_points, 10, ZeroEllipse)
         IN  IF fit.result /\ DevGreater(5 * LINE_TOLERANCE)
             THEN [s EXCEPT !.m_isComplemented = TRUE,
                            !.m_detectedShape = "Ellipse",
                            !.m_complementEllipse = fit.outEllipse]
             ELSE IF DevLess(LINE_TOLERANCE)
             THEN [s EXCEPT !.m_isComplemented = TRUE,
                            !.m_detectedShape = "Line"]
             ELSE IF Len(s.m_points) > 10
             THEN [s EXCEPT !.m_isComplemented = TRUE,
                            !.m_detectedShape = "Curve"]
             ELSE [s EXCEPT !.m_isComplemented = FALSE,
                            !.m_detectedShape = "None"]

\* the early return taken one point too late
Complement_ReturnsBelowOne(s) ==
    IF Len(s.m_points) < 1 THEN s ELSE Classify(s)

\* CFreehandStroke::Complement
Complement(s) ==
    IF Len(s.m_points) < 2 THEN s ELSE Classify(s)

\* IDrawableObject::IsComplementable: the stroke's test; primitives answer false
IsComplementable(o) ==
    IF o.kind = "Stroke"
    THEN o.m_isComplemented /\ o.m_detectedShape # "None"
    ELSE FALSE

\* CLineSegment::CLineSegment
NewLineSegment(start, end, color, width) ==
    [kind |-> "Line", m_start |-> start, m_end |-> end, m_color |-> color,
     m_strokeWidth |-> width]

\* CEllipseSegment::CEllipseSegment
NewEllipseSegment(ellipse, color, width) ==
    [kind |-> "Ellipse", m_ellipse |-> ellipse, m_color |-> color,
     m_strokeWidth |-> width]

-----------------------------------------------------------------------------
(* Commands and CDocument.  The operators take and return the document     *)
(* record; a command is a record with the fields of both command classes.  *)

\* CAddObjectCommand::CAddObjectCommand
NewAddObjectCommand(object) ==
    [type |-> "Add", m_object |-> object, m_index |-> 0,
     m_originalObject |-> NULL, m_newObject |-> NULL]

\* CComplementCommand::CComplementCommand
NewComplementCommand(index, original, newItem) ==
    [type |-> "Complement", m_object |-> NULL, m_index |-> index,
     m_originalObject |-> original, m_newObject |-> newItem]

\* the front of the list taken for its back
GetLastObject_First(doc) ==
    IF doc.m_objects = << >> THEN NULL ELSE doc.m_objects[1]

\* CDocument::GetLastObject
GetLastObject(doc) ==
    IF doc.m_objects = << >> THEN NULL ELSE Last(doc.m_objects)

\* the size taken for the last index
GetLastObjectIndex_Size(doc) == Len(doc.m_objects)

\* CDocument::GetLastObjectIndex
GetLastObjectIndex(doc) ==
    IF doc.m_objects = << >> THEN 0 ELSE Len(doc.m_objects) - 1

\* CDocument::ReplaceObject
ReplaceObject(doc, index, newObject) ==
    IF index < Len(doc.m_objects)
    THEN [doc EXCEPT !.m_objects[index + 1] = newObject]
    ELSE doc

\* an out-of-range index clamped to the last slot instead of skipped
RemoveObjectAt_Clamped(doc, index) ==
    IF doc.m_objects = << >>
    THEN doc
    ELSE [doc EXCEPT !.m_objects = IF index < Len(@)
                                   THEN SubSeq(@, 1, index) \o SubSeq(@, index + 2, Len(@))
                                   ELSE Front(@)]

\* an erase that moves the following objects down and keeps the old length
RemoveObjectAt_KeepsLength(doc, index) ==
    IF index < Len(doc.m_objects)
    THEN [doc EXCEPT !.m_objects =
              [i \in 1..Len(@) |-> IF i > index /\ i < Len(@) THEN @[i + 1] ELSE @[i]]]
    ELSE doc

\* CDocument::RemoveObjectAt
RemoveObjectAt(doc, index) ==
    IF index < Len(doc.m_objects)
    THEN [doc EXCEPT !.m_objects =
              SubSeq(@, 1, index) \o SubSeq(@, index + 2, Len(@))]
    ELSE doc

\* CDocument::RecordCommand
RecordCommand(doc, command) ==
    [doc EXCEPT !.m_undoStack = Append(@, command)]

\* an AddObject that records its command whatever the flag says
AddObject_AlwaysRecords(doc, object, recordCommand) ==
    LET pushed == [doc EXCEPT !.m_objects = Append(@, object)]
    IN  RecordCommand([pushed EXCEPT !.m_redoStack = << >>],
                      NewAddObjectCommand(object))

\* CDocument::AddObject
AddObject(doc, object, recordCommand) ==
    LET pushed == [doc EXCEPT !.m_objects = Append(@, object)]
    IN  IF recordCommand
        THEN RecordCommand([pushed EXCEPT !.m_redoStack = << >>],
                           NewAddObjectCommand(object))
        ELSE pushed

\* CAddObjectCommand::Execute: only the command changes
CAddObjectCommand_Execute(doc, command) ==
    [doc |-> doc,
     command |-> [command EXCEPT !.m_index = GetLastObjectIndex(doc)]]

\* CAddObjectCommand::Undo
CAddObjectCommand_Undo(doc, command) == RemoveObjectAt(doc, command.m_index)

\* CComplementCommand::Execute
CComplementCommand_Execute(doc, command) ==
    [doc |-> ReplaceObject(doc, command.m_index, command.m_newObject),
     command |-> command]

\* an Undo that writes the replacement again
CComplementCommand_Undo_New(doc, command) ==
    ReplaceObject(doc, command.m_index, command.m_newObject)

\* CComplementCommand::Undo
CComplementCommand_Undo(doc, command) ==
    ReplaceObject(doc, command.m_index, command.m_originalObject)

\* ICommand::Execute (virtual dispatch)
Execute(doc, command) ==
    IF command.type = "Add"
    THEN CAddObjectCommand_Execute(doc, command)
    ELSE CComplementCommand_Execute(doc, command)

\* ICommand::Undo (virtual dispatch)
CommandUndo(doc, command) ==
    IF command.type = "Add"
    THEN CAddObjectCommand_Undo(doc, command)
    ELSE CComplementCommand_Undo(doc, command)

\* CDocument::CanUndo
CanUndo(doc) == doc.m_undoStack # << >>

\* CDocument::CanRedo
CanRedo(doc) == doc.m_redoStack # << >>

\* CDocument::Undo after its guard: pop, undo, push on the redo stack
UndoTop(doc) ==
    LET command == Last(doc.m_undoStack)
        popped == [doc EXCEPT !.m_undoStack = Front(@)]
        undone == CommandUndo(popped, command)
    IN  [undone EXCEPT !.m_redoStack = Append(@, command)]

\* an Undo that treats an empty history as a fresh action and drops the redo branch
Undo_EmptyClearsRedo(doc) ==
    IF ~CanUndo(doc) THEN [doc EXCEPT !.m_redoStack = << >>] ELSE UndoTop(doc)

\* CDocument::Undo
Undo(doc) ==
    IF ~CanUndo(doc) THEN doc ELSE UndoTop(doc)

\* CDocument::Redo
Redo(doc) ==
    IF ~CanRedo(doc)
    THEN doc
    ELSE LET command == Last(doc.m_redoStack)
             popped == [doc EXCEPT !.m_redoStack = Front(@)]
             done == Execute(popped, command)
         IN  [done.doc EXCEPT !.m_undoStack = Append(@, done.command)]

-----------------------------------------------------------------------------
(* Object lifetime and history *)

\* make_shared<CFreehandStroke>: the n-th stroke constructed
StrokeRef(n) == 2 * n - 1

\* make_shared<CLineSegment / CEllipseSegment> for the preview of a stroke
\* (one per committed stroke)
PreviewRef(stroke) == stroke + 1

\* the references held by the document, its commands and the session globals
CommandRefs(stack) ==
    UNION {{stack[i].m_object, stack[i].m_originalObject, stack[i].m_newObject} :
           i \in DOMAIN stack}

LiveRefs(doc, cur, preview, original) ==
    ({doc.m_objects[i] : i \in DOMAIN doc.m_objects}
       \cup CommandRefs(doc.m_undoStack) \cup CommandRefs(doc.m_redoStack)
       \cup {cur, preview, original}) \ {NULL}

\* shared_ptr: an object lives as long as its longest holder
Collect(h, doc, cur, preview, original) ==
    [r \in (DOMAIN h) \cap LiveRefs(doc, cur, preview, original) |-> h[r]]

Snapshot ==
    [doc |-> g_document, heap |-> heap, cur |-> g_currentStroke,
     drawing |-> g_isDrawing, preview |-> g_pComplementPreview,
     original |-> g_pOriginalObject, index |-> g_previewIndex]

\* The event sequences the properties below speak of.  `log` holds the
\* longest suffix of the event history that is the beginning of one of them
\* (and always the latest event).
Scenarios ==
    { << "LButtonUp", "Tab", "Undo", "Undo" >>,
      << "Tab", "Undo", "Redo" >>,
      << "Undo", "Redo" >>,
      << "Undo", "Undo", "Redo", "Redo" >>,
      << "LButtonUp", "Redo" >>,
      << "LButtonUp", "Complement" >> }

StartsScenario(l) ==
    \E sc \in Scenarios :
        /\ Len(l) <= Len(sc)
        /\ \A i \in DOMAIN l : l[i].op = sc[i]

Suffix(l, n) == SubSeq(l, Len(l) - n + 1, Len(l))

Logged(op, arg) ==
    LET l == Append(log, [op |-> op, arg |-> arg, pre |-> Snapshot])
        keep == MaxOf({1} \cup {n \in 1..Len(l) : StartsScenario(Suffix(l, n))})
    IN  log' = Suffix(l, keep)

-----------------------------------------------------------------------------
(* The window procedure *)

Init ==
    /\ g_document = [m_objects |-> << >>, m_undoStack |-> << >>, m_redoStack |-> << >>]
    /\ heap = << >>
    /\ g_currentStroke = NULL
    /\ g_isDrawing = FALSE
    /\ g_pComplementPreview = NULL
    /\ g_pOriginalObject = NULL
    /\ g_previewIndex = 0
    /\ nStrokes = 0
    /\ log = << >>

\* a discard that forgets the original
DiscardPreview_KeepsOriginal ==
    /\ g_pComplementPreview' = NULL
    /\ UNCHANGED g_pOriginalObject

\* DiscardPreview
DiscardPreview ==
    /\ g_pComplementPreview' = NULL
    /\ g_pOriginalObject' = NULL

\* WM_LBUTTONDOWN at (x, y)
LButtonDown(x, y) ==
    /\ nStrokes < MaxStrokes
    /\ Pt(x, y) = PointerPath[1]
    /\ LET ref == StrokeRef(nStrokes + 1)
           stroke == AddPoint(NewStroke("black", STROKE_WIDTH), Pt(x, y))
           h == [r \in (DOMAIN heap) \cup {ref} |-> IF r = ref THEN stroke ELSE heap[r]]
       IN  /\ IF g_pComplementPreview # NULL
              THEN DiscardPreview
              ELSE UNCHANGED << g_pComplementPreview, g_pOriginalObject >>
           /\ g_currentStroke' = ref
           /\ g_isDrawing' = TRUE
           /\ heap' = Collect(h, g_document, ref, g_pComplementPreview',
                              g_pOriginalObject')
    /\ nStrokes' = nStrokes + 1
    /\ Logged("LButtonDown", NULL)
    /\ UNCHANGED << g_document, g_previewIndex >>

\* WM_MOUSEMOVE at (x, y) while g_isDrawing && g_currentStroke
MouseMove(x, y) ==
    /\ g_isDrawing
    /\ g_currentStroke # NULL
    /\ LET n == Len(heap[g_currentStroke].m_points)
       IN  /\ n < Len(PointerPath)
           /\ Pt(x, y) = PointerPath[n + 1]
    /\ heap' = [heap EXCEPT ![g_currentStroke] = AddPoint(@, Pt(x, y))]
    /\ Logged("MouseMove", NULL)
    /\ UNCHANGED << g_document, g_currentStroke, g_isDrawing, g_pComplementPreview,
                    g_pOriginalObject, g_previewIndex, nStrokes >>

\* the preview primitive built in WM_LBUTTONUP from a complementable stroke
PreviewObject(stroke) ==
    IF stroke.m_detectedShape = "Line"
    THEN NewLineSegment(stroke.m_points[1], Last(stroke.m_points), "black", STROKE_WIDTH)
    ELSE NewEllipseSegment(stroke.m_complementEllipse, "black", STROKE_WIDTH)

\* the committing branch of WM_LBUTTONUP
CommitStroke ==
    LET added == AddObject(g_document, g_currentStroke, FALSE)
        addCommand == CAddObjectCommand_Execute(added,
                          NewAddObjectCommand(g_currentStroke)).command
        doc == RecordCommand(added, addCommand)
        lastObj == GetLastObject(doc)
        index == GetLastObjectIndex(doc)
        isStroke == lastObj # NULL /\ heap[lastObj].kind = "Stroke"
        h1 == IF isStroke
              THEN [heap EXCEPT ![lastObj] = Complement(@)]
              ELSE heap
        staged == isStroke /\ IsComplementable(h1[lastObj])
                     /\ h1[lastObj].m_detectedShape \in {"Line", "Ellipse", "Curve"}
        pref == PreviewRef(lastObj)
        h2 == IF staged
              THEN [r \in (DOMAIN h1) \cup {pref} |->
                       IF r = pref THEN PreviewObject(h1[lastObj]) ELSE h1[r]]
              ELSE h1
    IN  /\ g_document' = doc
        /\ g_pComplementPreview' = IF staged THEN pref ELSE g_pComplementPreview
        /\ g_pOriginalObject' =
               IF g_pComplementPreview' # NULL /\ isStroke /\ IsComplementable(h1[lastObj])
               THEN lastObj ELSE g_pOriginalObject
        /\ g_previewIndex' =
               IF g_pComplementPreview' # NULL /\ isStroke /\ IsComplementable(h1[lastObj])
               THEN index ELSE g_previewIndex
        /\ g_currentStroke' = NULL
        /\ heap' = Collect(h2, doc, NULL, g_pComplementPreview', g_pOriginalObject')

\* WM_LBUTTONUP.  While a stroke is being drawn the button is released only
\* after a ReleaseAt prefix of the pointer path.
LButtonUp ==
    /\ (g_isDrawing /\ g_currentStroke # NULL)
           => Len(heap[g_currentStroke].m_points) \in ReleaseAt
    /\ IF g_isDrawing /\ g_currentStroke # NULL
             /\ Len(heap[g_currentStroke].m_points) > 1
       THEN CommitStroke
       ELSE UNCHANGED << g_document, heap, g_currentStroke, g_pComplementPreview,
                         g_pOriginalObject, g_previewIndex >>
    /\ g_isDrawing' = FALSE
    /\ Logged("LButtonUp", NULL)
    /\ UNCHANGED nStrokes

\* WM_KEYDOWN 'Z' with Ctrl
KeyDownUndo ==
    /\ DiscardPreview
    /\ g_document' = Undo(g_document)
    /\ heap' = Collect(heap, g_document', g_currentStroke, g_pComplementPreview',
                       g_pOriginalObject')
    /\ Logged("Undo", NULL)
    /\ UNCHANGED << g_currentStroke, g_isDrawing, g_previewIndex, nStrokes >>

\* WM_KEYDOWN 'Y' with Ctrl
KeyDownRedo ==
    /\ DiscardPreview
    /\ g_document' = Redo(g_document)
    /\ heap' = Collect(heap, g_document', g_currentStroke, g_pComplementPreview',
                       g_pOriginalObject')
    /\ Logged("Redo", NULL)
    /\ UNCHANGED << g_currentStroke, g_isDrawing, g_previewIndex, nStrokes >>

\* WM_KEYDOWN VK_TAB with a preview pending (without one the handler does nothing)
KeyDownTab ==
    /\ g_pComplementPreview # NULL
    /\ LET complementCommand ==
               NewComplementCommand(g_previewIndex, g_pOriginalObject, g_pComplementPreview)
           done == CComplementCommand_Execute(g_document, complementCommand)
       IN  g_document' = RecordCommand(done.doc, done.command)
    /\ DiscardPreview
    /\ heap' = Collect(heap, g_document', g_currentStroke, g_pComplementPreview',
                       g_pOriginalObject')
    /\ Logged("Tab", NULL)
    /\ UNCHANGED << g_currentStroke, g_isDrawing, g_previewIndex, nStrokes >>

Coords == {PointerPath[i].x : i \in DOMAIN PointerPath}
              \cup {PointerPath[i].y : i \in DOMAIN PointerPath}

Next ==
    \/ \E x \in Coords, y \in Coords : LButtonDown(x, y)
    \/ \E x \in Coords, y \in Coords : MouseMove(x, y)
    \/ LButtonUp
    \/ KeyDownUndo
    \/ KeyDownRedo
    \/ KeyDownTab

Spec == Init /\ [][Next]_vars

\* IDrawableObject::Complement (virtual dispatch; the primitives' Complement is empty)
DrawableComplement(o) == IF o.kind = "Stroke" THEN Complement(o) ELSE o

\* A client of the object interface calls Complement on a live stroke that
\* has fewer than two points (the window procedure never does).
ApiComplement(r) ==
    /\ heap[r].kind = "Stroke"
    /\ Len(heap[r].m_points) < 2
    /\ heap' = [heap EXCEPT ![r] = DrawableComplement(@)]
    /\ Logged("Complement", r)
    /\ UNCHANGED << g_document, g_currentStroke, g_isDrawing, g_pComplementPreview,
                    g_pOriginalObject, g_previewIndex, nStrokes >>

NextApi ==
    \/ Next
    \/ \E r \in DOMAIN heap : ApiComplement(r)

\* the session together with direct calls of the object interface
SpecApi == Init /\ [][NextApi]_vars

-----------------------------------------------------------------------------
(* The stroke class on its own: a client constructs a CFreehandStroke,     *)
(* feeds it points and calls Complement and Clone on it.                   *)

\* longest point sequence handed to a stroke at once
MaxPoints == 11

\* AddPoint calls accepted one by one with a free choice of the point
MaxFreePoints == 3

\* Clone calls in one run
MaxClones == 1

\* the stroke widths the client constructs strokes with
Widths == {0, 1, 3}

\* the points the client adds one by one
Grid == {Pt(x, y) : x \in {0, 10, 30}, y \in {0, 10, 30}}

\* twelve integer points of the circle of radius 5 about the origin, in order
Ring ==
    << Pt(5, 0), Pt(4, 3), Pt(3, 4), Pt(0, 5), Pt(-3, 4), Pt(-4, 3),
       Pt(-5, 0), Pt(-4, -3), Pt(-3, -4), Pt(0, -5), Pt(3, -4), Pt(4, -3) >>

\* the ring stretched by sx, sy: circles of radius 5, 10 and 25, the ellipse
\* with radii 40 and 30, and a narrow ellipse with radii 5 and 25
RingScales == {<< 1, 1 >>, << 2, 2 >>, << 5, 5 >>, << 8, 6 >>, << 1, 5 >>}

\* n points of a stretched ring about (100, 100), every step-th one from start
RingRun(sc, start, step, n) ==
    [i \in 1..n |->
        LET b == Ring[((start + step * (i - 1)) % Len(Ring)) + 1]
        IN  Pt(100 + sc[1] * b.x, 100 + sc[2] * b.y)]

\* n points of the line through (0, 0) and (24, 32), walked back and forth
LineRun(start, step, n) ==
    [i \in 1..n |->
        LET k == (start + step * (i - 1)) % 5
        IN  Pt(6 * k, 8 * k)]

\* the point sequences handed to a stroke at once
StrokeInputs ==
    {RingRun(sc, start, step, n) :
         sc \in RingScales, start \in 0..2, step \in 1..3, n \in 5..MaxPoints}
    \cup {LineRun(start, step, n) : start \in 0..4, step \in 1..4, n \in 2..MaxPoints}

\* AddPoint called for each point of pts in turn
RECURSIVE AddPoints(_, _)
AddPoints(s, pts) ==
    IF pts = << >> THEN s ELSE AddPoints(AddPoint(s, Head(pts)), Tail(pts))

\* a copy that takes the shape but not the flag
Clone_DropsComplemented(s) ==
    [NewStroke(s.m_color, s.m_strokeWidth) EXCEPT
        !.m_points = s.m_points,
        !.m_detectedShape = s.m_detectedShape,
        !.m_complementEllipse = s.m_complementEllipse]

\* CFreehandStroke::Clone
Clone(s) ==
    [NewStroke(s.m_color, s.m_strokeWidth) EXCEPT
        !.m_points = s.m_points,
        !.m_isComplemented = s.m_isComplemented,
        !.m_detectedShape = s.m_detectedShape,
        !.m_complementEllipse = s.m_complementEllipse]

\* a stroke constructed with one of the widths and fed one of the sequences
InitStroke ==
    /\ g_document = [m_objects |-> << >>, m_undoStack |-> << >>, m_redoStack |-> << >>]
    /\ \E w \in Widths, pts \in {<< >>} \cup StrokeInputs :
           heap = [r \in {1} |-> AddPoints(NewStroke("black", w), pts)]
    /\ g_currentStroke = NULL
    /\ g_isDrawing = FALSE
    /\ g_pComplementPreview = NULL
    /\ g_pOriginalObject = NULL
    /\ g_previewIndex = 0
    /\ nStrokes = 0
    /\ log = << >>

\* the client calls AddPoint(p) on its stroke
StrokeAddPoint(r, p) ==
    /\ Len(heap[r].m_points) < MaxFreePoints
    /\ heap' = [heap EXCEPT ![r] = AddPoint(@, p)]
    /\ Logged("AddPoint", r)
    /\ UNCHANGED << g_document, g_currentStroke, g_isDrawing, g_pComplementPreview,
                    g_pOriginalObject, g_previewIndex, nStrokes >>

\* the client calls Complement() on its stroke
StrokeComplement(r) ==
    /\ heap' = [heap EXCEPT ![r] = DrawableComplement(@)]
    /\ Logged("Complement", r)
    /\ UNCHANGED << g_document, g_currentStroke, g_isDrawing, g_pComplementPreview,
                    g_pOriginalObject, g_previewIndex, nStrokes >>

\* the client calls Clone() on its stroke and goes on with the copy
StrokeClone(r) ==
    /\ r <= MaxClones
    /\ heap' = [c \in {r + 1} |-> Clone(heap[r])]
    /\ Logged("Clone", r)
    /\ UNCHANGED << g_document, g_currentStroke, g_isDrawing, g_pComplementPreview,
                    g_pOriginalObject, g_previewIndex, nStrokes >>

NextStroke ==
    \/ \E r \in DOMAIN heap, p \in Grid : StrokeAddPoint(r, p)
    \/ \E r \in DOMAIN heap : StrokeComplement(r)
    \/ \E r \in DOMAIN heap : StrokeClone(r)

SpecStroke == InitStroke /\ [][NextStroke]_vars

\* A client of the document constructs a two-point stroke and hands it to
\* AddObject with recordCommand = true (the window procedure passes false).
ApiAddObject ==
    /\ nStrokes < MaxStrokes
    /\ LET ref == StrokeRef(nStrokes + 1)
           object == AddPoints(NewStroke("black", STROKE_WIDTH),
                               SubSeq(PointerPath, 1, 2))
           h == [r \in (DOMAIN heap) \cup {ref} |-> IF r = ref THEN object ELSE heap[r]]
       IN  /\ g_document' = AddObject(g_document, ref, TRUE)
           /\ heap' = Collect(h, g_document', g_currentStroke, g_pComplementPreview,
                              g_pOriginalObject)
    /\ nStrokes' = nStrokes + 1
    /\ Logged("AddObject", NULL)
    /\ UNCHANGED << g_currentStroke, g_isDrawing, g_pComplementPreview,
                    g_pOriginalObject, g_previewIndex >>

NextDoc ==
    \/ Next
    \/ ApiAddObject

\* the session together with direct calls of CDocument::AddObject
SpecDoc == Init /\ [][NextDoc]_vars

-----------------------------------------------------------------------------
(* Vocabulary of the properties *)

Objects == g_document.m_objects

\* the k-th latest event (k = 0: the event that led to the current state)
Ev(k) == log[Len(log) - k]

\* the event history ends with the events sc
EndsWith(sc) ==
    /\ Len(log) >= Len(sc)
    /\ \A i \in DOMAIN sc : log[Len(log) - Len(sc) + i].op = sc[i]

\* the command an Undo (a Redo) handled in the state `pre` pops, if any
PopsUndo(pre) == Last(pre.doc.m_undoStack)

PopsRedo(pre) == Last(pre.doc.m_redoStack)

\* event e is a pointer-up that committed the stroke being drawn
Commits(e) ==
    /\ e.op = "LButtonUp"
    /\ e.pre.drawing
    /\ e.pre.cur # NULL
    /\ Len(e.pre.heap[e.pre.cur].m_points) > 1

\* s without the elements equal to x
Without(s, x) == SelectSeq(s, LAMBDA o : o # x)

-----------------------------------------------------------------------------
(* C1 - C4: undo / redo of AddObject *)

\* C1: after an Undo that popped an AddObject command and removed its object,
\* an immediately following Redo puts that object back at the recorded index:
\* the list is one longer and the slot at that index holds the same object.
C1_RedoRestoresAdded ==
    EndsWith(<< "Undo", "Redo" >>) =>
        LET before == Ev(1).pre.doc
            between == Ev(0).pre.doc
        IN  (/\ CanUndo(before)
             /\ PopsUndo(Ev(1).pre).type = "Add"
             /\ PopsUndo(Ev(1).pre).m_index < Len(before.m_objects)
             /\ before.m_objects[PopsUndo(Ev(1).pre).m_index + 1]
                    = PopsUndo(Ev(1).pre).m_object
             /\ Len(between.m_objects) = Len(before.m_objects) - 1)
            => /\ Len(Objects) = Len(between.m_objects) + 1
               /\ Objects[PopsUndo(Ev(1).pre).m_index + 1] = PopsUndo(Ev(1).pre).m_object

\* C2: when Undo pops an AddObject command, the resulting object list is the
\* previous list with the object of that command taken out; every other
\* object stays, in the same order.
C2_UndoRemovesOnlyAdded ==
    (/\ Len(log) >= 1
     /\ Ev(0).op = "Undo"
     /\ CanUndo(Ev(0).pre.doc)
     /\ PopsUndo(Ev(0).pre).type = "Add")
    => Objects = Without(Ev(0).pre.doc.m_objects, PopsUndo(Ev(0).pre).m_object)

\* C3: N Undos followed by N Redos over a history of at least N recorded
\* commands give back the object list as it was before the Undos (N = 1, 2).
C3_UndoRedoSymmetry ==
    /\ (EndsWith(<< "Undo", "Redo" >>) /\ Len(Ev(1).pre.doc.m_undoStack) >= 1)
           => Objects = Ev(1).pre.doc.m_objects
    /\ (EndsWith(<< "Undo", "Undo", "Redo", "Redo" >>)
            /\ Len(Ev(3).pre.doc.m_undoStack) >= 2)
           => Objects = Ev(3).pre.doc.m_objects

\* C4: right after a fresh command is recorded (the AddObject of a stroke
\* commit, the ReplaceObjectAt of a Tab confirm) the redo stack is empty, and
\* a Redo request that follows a stroke commit changes nothing in the document.
C4_FreshCommandClearsRedo ==
    /\ (/\ Len(log) >= 1
        /\ Commits(Ev(0)) \/ Ev(0).op = "Tab")
           => g_document.m_redoStack = << >>
    /\ (EndsWith(<< "LButtonUp", "Redo" >>) /\ Commits(Ev(1)))
           => g_document = Ev(0).pre.doc

-----------------------------------------------------------------------------
(* C5 - C7: preview confirm and discard *)

\* C5: a Tab confirm with a preview pending pushes exactly one ReplaceObjectAt
\* command and leaves the preview object in the slot at the preview index; an
\* immediately following Undo puts the identical original stroke back into
\* that slot, and an immediately following Redo the identical preview object;
\* the list length never changes.
C5_ConfirmUndoRedoIdentity ==
    /\ (Len(log) >= 1 /\ Ev(0).op = "Tab") =>
           LET t == Ev(0).pre
           IN  /\ t.preview # NULL
               /\ g_document.m_undoStack =
                      Append(t.doc.m_undoStack,
                             NewComplementCommand(t.index, t.original, t.preview))
               /\ Len(Objects) = Len(t.doc.m_objects)
               /\ t.index < Len(Objects)
               /\ t.doc.m_objects[t.index + 1] = t.original
               /\ Objects[t.index + 1] = t.preview
    /\ EndsWith(<< "Tab", "Undo" >>) =>
           LET t == Ev(1).pre
           IN  /\ Len(Objects) = Len(t.doc.m_objects)
               /\ t.index < Len(Objects)
               /\ Objects[t.index + 1] = t.original
    /\ EndsWith(<< "Tab", "Undo", "Redo" >>) =>
           LET t == Ev(2).pre
           IN  /\ Len(Objects) = Len(t.doc.m_objects)
               /\ t.index < Len(Objects)
               /\ Objects[t.index + 1] = t.preview

\* a confirmed preview was undone and redone, and is back in its slot
C5_Witness ==
    /\ EndsWith(<< "Tab", "Undo", "Redo" >>)
    /\ Ev(2).pre.preview # NULL
    /\ Ev(2).pre.index < Len(Objects)
    /\ Ev(0).pre.doc.m_objects[Ev(2).pre.index + 1] = Ev(2).pre.original
    /\ Objects[Ev(2).pre.index + 1] = Ev(2).pre.preview

\* C6: a stroke commit and its confirmed complement are two history entries:
\* after pointer-up commits a stroke and Tab confirms its preview, the first
\* Undo restores the raw stroke in its slot and the second Undo removes it, so
\* the object list is again the list before that pointer-up.
C6_TwoUndosReverseBoth ==
    (EndsWith(<< "LButtonUp", "Tab", "Undo", "Undo" >>) /\ Commits(Ev(3))) =>
        LET up == Ev(3).pre
            tab == Ev(2).pre
            afterTab == Ev(1).pre
            afterUndo == Ev(0).pre
        IN  /\ Len(afterTab.doc.m_undoStack) = Len(up.doc.m_undoStack) + 2
            /\ afterUndo.doc.m_objects = Append(up.doc.m_objects, up.cur)
            /\ tab.index = Len(up.doc.m_objects)
            /\ Objects = up.doc.m_objects

\* a second stroke was committed, confirmed and undone twice
C6_Witness ==
    /\ EndsWith(<< "LButtonUp", "Tab", "Undo", "Undo" >>)
    /\ Commits(Ev(3))
    /\ Ev(3).pre.doc.m_objects # << >>
    /\ Ev(1).pre.doc.m_objects[Ev(2).pre.index + 1] = Ev(2).pre.preview
    /\ Objects = Ev(3).pre.doc.m_objects

\* C7: a pointer-down with a preview pending leaves the object list and both
\* stacks unchanged, the raw stroke stays in its slot, and the preview and its
\* original reference are cleared.
C7_NewStrokeKeepsDocument ==
    (Len(log) >= 1 /\ Ev(0).op = "LButtonDown" /\ Ev(0).pre.preview # NULL) =>
        /\ g_document = Ev(0).pre.doc
        /\ Ev(0).pre.index < Len(Objects)
        /\ Objects[Ev(0).pre.index + 1] = Ev(0).pre.original
        /\ g_pComplementPreview = NULL
        /\ g_pOriginalObject = NULL

\* a new stroke was started while a preview was pending
C7_Witness ==
    /\ Len(log) >= 1
    /\ Ev(0).op = "LButtonDown"
    /\ Ev(0).pre.preview # NULL
    /\ Ev(0).pre.original \in {Objects[i] : i \in DOMAIN Objects}
    /\ g_currentStroke # NULL

-----------------------------------------------------------------------------
(* C8 - C10: boundary conditions *)

\* C8: an Undo request with an empty undo stack and a Redo request with an
\* empty redo stack leave the object list and both stacks unchanged.
C8_EmptyHistoryNoOp ==
    /\ (Len(log) >= 1 /\ Ev(0).op = "Undo" /\ ~CanUndo(Ev(0).pre.doc))
           => g_document = Ev(0).pre.doc
    /\ (Len(log) >= 1 /\ Ev(0).op = "Redo" /\ ~CanRedo(Ev(0).pre.doc))
           => g_document = Ev(0).pre.doc

\* an Undo with nothing to undo was followed by a Redo with nothing to redo
C8_Witness ==
    /\ EndsWith(<< "Undo", "Redo" >>)
    /\ ~CanUndo(Ev(1).pre.doc)
    /\ ~CanRedo(Ev(0).pre.doc)
    /\ g_document = Ev(1).pre.doc

\* C9: ReplaceObject and RemoveObjectAt with an index at or beyond the list
\* length leave the object list unchanged, so undoing or redoing a command
\* whose recorded index is out of range changes no slot of the object list.
C9_OutOfRangeIndexNoOp ==
    /\ \A i \in Len(Objects)..(Len(Objects) + 1) :
           /\ RemoveObjectAt(g_document, i) = g_document
           /\ \A r \in (DOMAIN heap) \cup {NULL} :
                  ReplaceObject(g_document, i, r) = g_document
    /\ (/\ Len(log) >= 1
        /\ Ev(0).op = "Undo"
        /\ CanUndo(Ev(0).pre.doc)
        /\ PopsUndo(Ev(0).pre).m_index >= Len(Ev(0).pre.doc.m_objects))
           => Objects = Ev(0).pre.doc.m_objects
    /\ (/\ Len(log) >= 1
        /\ Ev(0).op = "Redo"
        /\ CanRedo(Ev(0).pre.doc)
        /\ PopsRedo(Ev(0).pre).m_index >= Len(Ev(0).pre.doc.m_objects))
           => Objects = Ev(0).pre.doc.m_objects

\* a ReplaceObjectAt command whose index is out of range was redone
C9_Witness ==
    /\ Len(log) >= 1
    /\ Ev(0).op = "Redo"
    /\ CanRedo(Ev(0).pre.doc)
    /\ PopsRedo(Ev(0).pre).type = "Complement"
    /\ PopsRedo(Ev(0).pre).m_index >= Len(Ev(0).pre.doc.m_objects)
    /\ Last(g_document.m_undoStack) = PopsRedo(Ev(0).pre)
    /\ Objects = Ev(0).pre.doc.m_objects

\* C10: a pointer-up on an in-progress stroke with fewer than 2 points adds no
\* object, records no command and stages no preview; Complement on a stroke
\* with fewer than 2 points leaves detectedShape = None and the stroke
\* non-complementable.
C10_BelowMinimumNoOp ==
    /\ (/\ Len(log) >= 1
        /\ Ev(0).op = "LButtonUp"
        /\ Ev(0).pre.drawing
        /\ Ev(0).pre.cur # NULL
        /\ Len(Ev(0).pre.heap[Ev(0).pre.cur].m_points) < 2)
           => /\ g_document = Ev(0).pre.doc
              /\ g_pComplementPreview = NULL
              /\ g_pOriginalObject = NULL
    /\ (/\ Len(log) >= 1
        /\ Ev(0).op = "Complement"
        /\ Len(Ev(0).pre.heap[Ev(0).arg].m_points) < 2)
           => /\ heap[Ev(0).arg].m_detectedShape = "None"
              /\ ~IsComplementable(heap[Ev(0).arg])

\* a one-point stroke was released and then passed to Complement
C10_Witness ==
    /\ EndsWith(<< "LButtonUp", "Complement" >>)
    /\ Ev(1).pre.drawing
    /\ Ev(1).pre.cur # NULL
    /\ Len(Ev(1).pre.heap[Ev(1).pre.cur].m_points) = 1
    /\ Ev(0).arg = Ev(1).pre.cur
    /\ Ev(0).pre.doc = Ev(1).pre.doc
    /\ heap[Ev(0).arg].m_detectedShape = "None"

-----------------------------------------------------------------------------
(* Vocabulary of the classification properties *)

\* the latest event is a Complement call on a stroke
Complemented == Len(log) >= 1 /\ Ev(0).op = "Complement"

\* that stroke before the call, and its points and width
Before == Ev(0).pre.heap[Ev(0).arg]

Points == Before.m_points

Width == Before.m_strokeWidth

\* that stroke after the call
After == heap[Ev(0).arg]

\* twice the signed area of the triangle a, b, c
Cross(a, b, c) == (b.x - a.x) * (c.y - a.y) - (b.y - a.y) * (c.x - a.x)

\* all points lie on one line
Collinear(pts) ==
    \A i, j, k \in DOMAIN pts : Cross(pts[i], pts[j], pts[k]) = 0

\* the square of the divisor of the point-to-line distance (1 for coinciding end points)
DivisorSq(pts) ==
    LET dx == Last(pts).x - pts[1].x
        dy == Last(pts).y - pts[1].y
    IN  IF dx * dx + dy * dy = 0 THEN 1 ELSE dx * dx + dy * dy

\* the numerator A x + B y + C of the distance of p from the line through the
\* first and the last point
LineNum(pts, p) ==
    (Last(pts).y - pts[1].y) * p.x + (pts[1].x - Last(pts).x) * p.y
        + (Last(pts).x * pts[1].y - Last(pts).y * pts[1].x)

\* maxLineDeviation > t, maxLineDeviation < t and maxLineDeviation >= t, for t >= 0
DeviationAbove(pts, t) ==
    \E i \in DOMAIN pts : LineNum(pts, pts[i]) * LineNum(pts, pts[i]) > t * t * DivisorSq(pts)

DeviationBelow(pts, t) ==
    \A i \in DOMAIN pts : LineNum(pts, pts[i]) * LineNum(pts, pts[i]) < t * t * DivisorSq(pts)

DeviationAtLeast(pts, t) == ~DeviationBelow(pts, t)

\* width and height of the bounding box (twice the radii) and twice its centre
BoxW(pts) ==
    MaxOf({pts[i].x : i \in DOMAIN pts}) - MinOf({pts[i].x : i \in DOMAIN pts})

BoxH(pts) ==
    MaxOf({pts[i].y : i \in DOMAIN pts}) - MinOf({pts[i].y : i \in DOMAIN pts})

BoxC2(pts) ==
    Pt(MaxOf({pts[i].x : i \in DOMAIN pts}) + MinOf({pts[i].x : i \in DOMAIN pts}),
       MaxOf({pts[i].y : i \in DOMAIN pts}) + MinOf({pts[i].y : i \in DOMAIN pts}))

\* the bounding-box ellipse, in the half units of the model
BoundingEllipse(pts) ==
    [point |-> BoxC2(pts), radiusX |-> BoxW(pts), radiusY |-> BoxH(pts)]

\* 5 |nx^2 + ny^2 - 1| < 1 for the point p, cleared of fractions
NearEllipse(pts, p) ==
    LET ax == 2 * p.x - BoxC2(pts).x
        ay == 2 * p.y - BoxC2(pts).y
        w == BoxW(pts)
        h == BoxH(pts)
    IN  5 * Abs(ax * ax * h * h + ay * ay * w * w - w * w * h * h) < w * w * h * h

\* ellipse-like: at least 5 points, both radii at least 10, every point near
\* the bounding-box ellipse
EllipseLike(pts) ==
    /\ Len(pts) >= 5
    /\ BoxW(pts) >= 20
    /\ BoxH(pts) >= 20
    /\ \A i \in DOMAIN pts : NearEllipse(pts, pts[i])

\* the points lie exactly on the circle inscribed in their bounding box
OnBoxCircle(pts) ==
    /\ BoxW(pts) = BoxH(pts)
    /\ \A i \in DOMAIN pts :
           LET ax == 2 * pts[i].x - BoxC2(pts).x
               ay == 2 * pts[i].y - BoxC2(pts).y
           IN  ax * ax + ay * ay = BoxW(pts) * BoxW(pts)

\* the first match of the decision order
FirstMatch(pts, width) ==
    IF EllipseLike(pts) /\ DeviationAbove(pts, 5 * (2 * width)) THEN "Ellipse"
    ELSE IF DeviationBelow(pts, 2 * width) THEN "Line"
    ELSE IF Len(pts) > 10 THEN "Curve"
    ELSE "None"

-----------------------------------------------------------------------------
(* C11 - C15: classification *)

\* C11 as stated: Complement classifies every collinear sequence of at least
\* 2 points as Line, whatever the stroke width.
C11_CollinearIsLine ==
    (Complemented /\ Len(Points) >= 2 /\ Collinear(Points))
        => After.m_detectedShape = "Line"

\* C11: Complement classifies every collinear sequence of at least 2 points
\* as Line for every stroke width greater than 0 (with width 0 the line
\* tolerance is 0 and no deviation is below it).
C11_CollinearIsLinePositiveWidth ==
    (Complemented /\ Len(Points) >= 2 /\ Collinear(Points) /\ Width > 0)
        => /\ After.m_detectedShape = "Line"
           /\ After.m_isComplemented

\* a collinear stroke of more than 10 points that returns to its first point
\* was classified Line
C11_Witness ==
    /\ Complemented
    /\ Len(Points) > 10
    /\ Collinear(Points)
    /\ Points[1] = Last(Points)
    /\ \E i \in DOMAIN Points : Points[i] # Points[1]
    /\ Width > 0
    /\ After.m_detectedShape = "Line"

\* C12: Complement classifies every sequence of at least 5 points on a perfect
\* circle of radius at least 10 (normalized deviation 0 against its
\* bounding-box ellipse) as Ellipse and not as Line, also when the first and
\* the last point coincide.
C12_CircleIsEllipse ==
    (Complemented /\ Len(Points) >= 5 /\ OnBoxCircle(Points) /\ BoxW(Points) >= 20)
        => After.m_detectedShape = "Ellipse"

\* C13: when the bounding box is less than 10 in half-width or half-height,
\* Complement never classifies the stroke as Ellipse; if moreover the maximum
\* line deviation is at least twice the stroke width and there are more than
\* 10 points, the classification is Curve.
C13_SmallBoxNeverEllipse ==
    (Complemented /\ Len(Points) >= 1 /\ (BoxW(Points) < 20 \/ BoxH(Points) < 20))
        => /\ After.m_detectedShape # "Ellipse"
           /\ (DeviationAtLeast(Points, 2 * Width) /\ Len(Points) > 10)
                  => After.m_detectedShape = "Curve"

\* more than 10 points of a circle of radius 5, not line-like, were classified Curve
C13_Witness ==
    /\ Complemented
    /\ Len(Points) > 10
    /\ BoxW(Points) < 20
    /\ BoxH(Points) < 20
    /\ Width > 0
    /\ DeviationAtLeast(Points, 2 * Width)
    /\ \A i \in DOMAIN Points : NearEllipse(Points, Points[i])
    /\ After.m_detectedShape = "Curve"

\* C14: for every stroke alive, detectedShape # None implies complemented, and
\* IsComplementable is true exactly when detectedShape # None; after
\* construction, AddPoint, Complement and Clone.
C14_ShapeImpliesComplemented ==
    \A r \in DOMAIN heap :
        heap[r].kind = "Stroke" =>
            /\ heap[r].m_detectedShape # "None" => heap[r].m_isComplemented
            /\ IsComplementable(heap[r]) <=> heap[r].m_detectedShape # "None"

\* a classified stroke was cloned and the copy carries the classification
C14_Witness ==
    /\ Len(log) >= 1
    /\ Ev(0).op = "Clone"
    /\ Ev(0).pre.heap[Ev(0).arg].m_detectedShape = "Ellipse"
    /\ \E r \in DOMAIN heap :
           /\ r # Ev(0).arg
           /\ heap[r].m_detectedShape = "Ellipse"
           /\ heap[r].m_isComplemented
           /\ IsComplementable(heap[r])

\* C15: for every sequence of at least 2 points and every width, the
\* detectedShape after Complement is the first match of: Ellipse if
\* ellipse-like and maxLineDeviation > 5 x (2 x width); Line if
\* maxLineDeviation < 2 x width; Curve if more than 10 points; else None.
\* An Ellipse result stores the bounding-box centre and radii.
C15_FirstMatchWins ==
    (Complemented /\ Len(Points) >= 2)
        => /\ After.m_detectedShape = FirstMatch(Points, Width)
           /\ After.m_detectedShape = "Ellipse"
                  => After.m_complementEllipse = BoundingEllipse(Points)

\* 11 points of the ellipse about (100,100) with radii 40 and 30, width 3:
\* classified Ellipse with that centre and those radii (in half units)
C15_Witness ==
    /\ Complemented
    /\ Len(Points) = 11
    /\ Width = 3
    /\ After.m_detectedShape = "Ellipse"
    /\ After.m_complementEllipse =
           [point |-> Pt(200, 200), radiusX |-> 80, radiusY |-> 60]

-----------------------------------------------------------------------------
(* C16 - C20: recorded indices and the preview *)

\* C16: right after an AddObject command is recorded, by a committing
\* pointer-up or by AddObject with recordCommand = true, its stored index is
\* the last index of the list and that slot holds its object, so an immediate
\* Undo gives back the object list as it was before the object was added.
C16_RecordedIndexIsLanding ==
    (Len(log) >= 1 /\ (Commits(Ev(0)) \/ Ev(0).op = "AddObject"))
        => /\ CanUndo(g_document)
           /\ Last(g_document.m_undoStack).type = "Add"
           /\ Objects # << >>
           /\ Last(g_document.m_undoStack).m_index = Len(Objects) - 1
           /\ Last(Objects) = Last(g_document.m_undoStack).m_object
           /\ Undo(g_document).m_objects = Ev(0).pre.doc.m_objects

\* the command c of the undo stack at position i finds its own object in the
\* slot at its index, or the replacement a later command of the stack put there
HoldsOwnObject(i) ==
    LET stack == g_document.m_undoStack
        c == stack[i]
        own == IF c.type = "Add" THEN c.m_object ELSE c.m_newObject
    IN  /\ c.m_index < Len(Objects)
        /\ \/ Objects[c.m_index + 1] = own
           \/ \E j \in (i + 1)..Len(stack) :
                  /\ stack[j].type = "Complement"
                  /\ stack[j].m_index = c.m_index
                  /\ Objects[c.m_index + 1] = stack[j].m_newObject

\* C17: in every state reached by stroke commits, Tab confirms, Undo and Redo,
\* every command on the undo stack has a recorded index whose slot holds the
\* object that command added or put in place (unless a later command on the
\* stack replaced it).
C17_IndicesStayValid ==
    \A i \in DOMAIN g_document.m_undoStack : HoldsOwnObject(i)

\* C18: after a pointer-up commits a stroke classified Curve, the staged
\* preview is an Ellipse segment with the bounding-box ellipse of the stroke's
\* points; after one classified Line, a Line segment from the first to the
\* last point.
C18_PreviewParameters ==
    (Len(log) >= 1 /\ Commits(Ev(0))) =>
        LET s == heap[Ev(0).pre.cur]
        IN  /\ s.m_detectedShape = "Curve" =>
                   /\ g_pComplementPreview # NULL
                   /\ heap[g_pComplementPreview].kind = "Ellipse"
                   /\ heap[g_pComplementPreview].m_ellipse = BoundingEllipse(s.m_points)
            /\ s.m_detectedShape = "Line" =>
                   /\ g_pComplementPreview # NULL
                   /\ heap[g_pComplementPreview].kind = "Line"
                   /\ heap[g_pComplementPreview].m_start = s.m_points[1]
                   /\ heap[g_pComplementPreview].m_end = Last(s.m_points)

\* C19: a pointer-up that commits a complementable stroke records exactly one
\* command, the AddObject of that stroke: the undo stack grows by one, the
\* stroke is appended as the last slot, and the staged preview is in no slot
\* of the object list, as long as it is pending.
C19_CommitStagesOutside ==
    /\ (Len(log) >= 1 /\ Commits(Ev(0)) /\ IsComplementable(heap[Ev(0).pre.cur])) =>
           /\ Len(g_document.m_undoStack) = Len(Ev(0).pre.doc.m_undoStack) + 1
           /\ Front(g_document.m_undoStack) = Ev(0).pre.doc.m_undoStack
           /\ Last(g_document.m_undoStack).type = "Add"
           /\ Last(g_document.m_undoStack).m_object = Ev(0).pre.cur
           /\ g_document.m_redoStack = Ev(0).pre.doc.m_redoStack
           /\ Objects = Append(Ev(0).pre.doc.m_objects, Ev(0).pre.cur)
           /\ g_pComplementPreview # NULL
           /\ g_pOriginalObject = Ev(0).pre.cur
    /\ g_pComplementPreview # NULL =>
           \A i \in DOMAIN Objects : Objects[i] # g_pComplementPreview

\* a second stroke was committed with a preview staged beside the document
C19_Witness ==
    /\ Len(log) >= 1
    /\ Commits(Ev(0))
    /\ IsComplementable(heap[Ev(0).pre.cur])
    /\ Len(Objects) = 2
    /\ Last(Objects) = Ev(0).pre.cur
    /\ heap[Last(Objects)].kind = "Stroke"
    /\ g_pComplementPreview \in DOMAIN heap
    /\ Len(g_document.m_undoStack) = Len(Ev(0).pre.doc.m_undoStack) + 1

\* C20: pointer-down, Tab, Undo and Redo each leave no preview pending; an
\* Undo or Redo with a preview pending records no command (it only moves one
\* between the stacks, or nothing), and the raw stroke of the preview stays in
\* the document unless the Undo undoes the Add of that stroke.
C20_DiscardKeepsRawStroke ==
    /\ (Len(log) >= 1 /\ Ev(0).op \in {"LButtonDown", "Tab", "Undo", "Redo"})
           => g_pComplementPreview = NULL
    /\ (Len(log) >= 1 /\ Ev(0).op \in {"Undo", "Redo"} /\ Ev(0).pre.preview # NULL) =>
           LET pre == Ev(0).pre
               undoesOwnAdd == /\ Ev(0).op = "Undo"
                               /\ CanUndo(pre.doc)
                               /\ PopsUndo(pre).type = "Add"
                               /\ PopsUndo(pre).m_object = pre.original
           IN  /\ Len(g_document.m_undoStack) + Len(g_document.m_redoStack)
                      = Len(pre.doc.m_undoStack) + Len(pre.doc.m_redoStack)
               /\ undoesOwnAdd
                      => Objects = Without(pre.doc.m_objects, pre.original)
               /\ ~undoesOwnAdd
                      => \E i \in DOMAIN Objects : Objects[i] = pre.original

-----------------------------------------------------------------------------
(* C21 - C22: implicit invariants *)

\* C21: whenever a preview is pending, no stroke is being drawn, the preview
\* index is the last index of the object list and the slot at the preview
\* index holds the preview's original object; so a Tab confirm changes that
\* slot only, from the original to the preview.
C21_PreviewTargetsItsStroke ==
    /\ g_pComplementPreview # NULL =>
           /\ ~g_isDrawing
           /\ g_currentStroke = NULL
           /\ g_pOriginalObject # NULL
           /\ g_pOriginalObject # g_pComplementPreview
           /\ Objects # << >>
           /\ g_previewIndex = Len(Objects) - 1
           /\ Objects[g_previewIndex + 1] = g_pOriginalObject
    /\ (Len(log) >= 1 /\ Ev(0).op = "Tab") =>
           LET t == Ev(0).pre
           IN  /\ heap[t.preview].kind # "Stroke"
               /\ Objects = [i \in DOMAIN t.doc.m_objects |->
                                IF t.doc.m_objects[i] = t.original
                                THEN t.preview ELSE t.doc.m_objects[i]]

\* the preview of a second stroke is pending beside an earlier object
C21_Witness ==
    /\ g_pComplementPreview # NULL
    /\ Len(Objects) = 2
    /\ g_previewIndex = 1
    /\ Objects[2] = g_pOriginalObject
    /\ Objects[1] # g_pOriginalObject
    /\ heap[g_pOriginalObject].kind = "Stroke"

\* C22: in every state reached by stroke commits, Tab confirms, Undo and Redo
\* requests, no object occupies two slots of the object list.
C22_NoObjectInTwoSlots ==
    \A i, j \in DOMAIN Objects : Objects[i] = Objects[j] => i = j

\* two different objects in the list after a confirmed complement was undone
\* and redone
C22_Witness ==
    /\ EndsWith(<< "Tab", "Undo", "Redo" >>)
    /\ Len(Objects) = 2
    /\ Objects[1] # Objects[2]
    /\ Objects[Ev(2).pre.index + 1] = Ev(2).pre.preview
    /\ Ev(0).pre.doc.m_objects[Ev(2).pre.index + 1] = Ev(2).pre.original

====
